---- MODULE Spec2Model ----
(***************************************************************************)
(* Income dashboard (src/src/App.jsx; HoursChart from the earlier revision *)
(* src/unnamed/part_000): the App component loads adult.csv, cleans the    *)
(* rows in place, computes the KPI record and hands the rows to the chart  *)
(* components, whose effects aggregate them with d3-array.                  *)
(*                                                                         *)
(* JavaScript values are records tagged by "kind".  A number is an exact   *)
(* rational num/den (the doubles involved are small integers, quotients of *)
(* small integers and quarter-interpolations of them, whose order and      *)
(* equality agree with the rationals).  A string is a sequence of tokens:  *)
(* a white-space character " ", a decimal digit, or an atomic word.        *)
(***************************************************************************)
EXTENDS Integers, Sequences, FiniteSets, TLC

\* ------------------------------------------------------------------ bounds
MaxRecords == 3

MaxSample == 4

MaxUIRecords == 1

MaxSubmits == 2

MaxWords == 3

\* -------------------------------------------------------- JavaScript values
Undefined == [kind |-> "undefined"]

Null == [kind |-> "null"]

NaN == [kind |-> "NaN"]

Infinity == [kind |-> "Infinity"]

RECURSIVE Gcd(_, _)
Gcd(a, b) == IF b = 0 THEN a ELSE Gcd(b, a % b)

Abs(a) == IF a < 0 THEN -a ELSE a

\* the number n/d (d > 0), in lowest terms
Rat(n, d) ==
    LET g == Gcd(Abs(n), d)
    IN  [kind |-> "number", num |-> n \div g, den |-> d \div g]

Num(n) == Rat(n, 1)

Str(s) == [kind |-> "string", chars |-> s]

\* an array with the elements of the sequence s
Arr(s) == [kind |-> "array", items |-> s]

IsNum(v) == v.kind = "number"

IsStr(v) == v.kind = "string"

\* a < b, a <= b, a = b on numbers; every comparison with NaN or undefined is false
Lt(a, b) == IsNum(a) /\ IsNum(b) /\ a.num * b.den < b.num * a.den

Le(a, b) == IsNum(a) /\ IsNum(b) /\ a.num * b.den <= b.num * a.den

NumEq(a, b) == IsNum(a) /\ IsNum(b) /\ a.num * b.den = b.num * a.den

\* a / b on numbers: 0/0 is NaN, x/0 is Infinity (x > 0 wherever the program
\* divides by a count)
Div(a, b) ==
    IF ~(IsNum(a) /\ IsNum(b)) THEN NaN
    ELSE IF b.num = 0 THEN (IF a.num = 0 THEN NaN ELSE Infinity)
    ELSE IF b.num < 0 THEN Rat(0 - a.num * b.den, a.den * (0 - b.num))
    ELSE Rat(a.num * b.den, a.den * b.num)

\* a * b
Mul(a, b) ==
    IF ~(IsNum(a) /\ IsNum(b)) THEN (IF a = Infinity /\ IsNum(b) /\ b.num > 0 THEN Infinity ELSE NaN)
    ELSE Rat(a.num * b.num, a.den * b.den)

\* the truthiness test of  v ? x : y
Truthy(v) ==
    CASE v.kind = "string" -> v.chars # <<>>
      [] v.kind = "number" -> v.num # 0
      [] v.kind = "Infinity" -> TRUE
      [] v.kind = "array" -> TRUE
      [] OTHER -> FALSE

\* ------------------------------------------------------------------ strings
Space == " "

Digits == {"0", "1", "2", "3", "4", "5", "6", "7", "8", "9"}

DigitVal(c) == CASE c = "0" -> 0 [] c = "1" -> 1 [] c = "2" -> 2 [] c = "3" -> 3
                 [] c = "4" -> 4 [] c = "5" -> 5 [] c = "6" -> 6 [] c = "7" -> 7
                 [] c = "8" -> 8 [] c = "9" -> 9

RECURSIVE TrimStart(_)
TrimStart(s) == IF s # <<>> /\ Head(s) = Space THEN TrimStart(Tail(s)) ELSE s

RECURSIVE TrimEnd(_)
TrimEnd(s) == IF s # <<>> /\ s[Len(s)] = Space THEN TrimEnd(SubSeq(s, 1, Len(s) - 1)) ELSE s

\* String.prototype.trim
Trim(v) == Str(TrimEnd(TrimStart(v.chars)))

RECURSIVE DecimalValue(_)
DecimalValue(s) ==
    IF s = <<>> THEN 0 ELSE 10 * DecimalValue(SubSeq(s, 1, Len(s) - 1)) + DigitVal(s[Len(s)])

\* the unary plus  +v  (ToNumber): undefined gives NaN; a string is trimmed,
\* the empty string gives 0, a run of digits its value, anything else NaN
ToNumber(v) ==
    CASE v.kind = "undefined" -> NaN
      [] v.kind = "null" -> Num(0)
      [] v.kind = "string" ->
            LET t == Trim(v).chars
            IN  IF t = <<>> THEN Num(0)
                ELSE IF \A i \in 1..Len(t) : t[i] \in Digits THEN Num(DecimalValue(t))
                ELSE NaN
      [] OTHER -> v

\* ------------------------------------------------------------ program texts
HighIncome == Str(<<">50K">>)

LowIncome == Str(<<"<=50K">>)

NA == Str(<<"N/A">>)

Unknown == Str(<<"?">>)

ErrorMessage == Str(<<"Could not load the dataset.">>)

\* ------------------------------------------------------------ record cleaning
\* d.f = d.f ? d.f.trim() : 'N/A'
CleanCategorical(v) == IF Truthy(v) THEN Trim(v) ELSE NA

\* the body of loadedData.forEach(d => ...)
CleanRecord(d) ==
    [age          |-> ToNumber(d.age),
     hours        |-> ToNumber(d.hours),
     educationNum |-> ToNumber(d.educationNum),
     capitalGain  |-> ToNumber(d.capitalGain),
     capitalLoss  |-> ToNumber(d.capitalLoss),
     income       |-> CleanCategorical(d.income),
     education    |-> CleanCategorical(d.education),
     occupation   |-> CleanCategorical(d.occupation),
     sex          |-> CleanCategorical(d.sex),
     marital      |-> CleanCategorical(d.marital)]

Clean(loadedData) == [i \in 1..Len(loadedData) |-> CleanRecord(loadedData[i])]

\* ------------------------------------------------------------------ d3-array
\* a + b and a - b on numbers; NaN as soon as an operand is NaN or undefined
Add(a, b) ==
    IF IsNum(a) /\ IsNum(b) THEN Rat(a.num * b.den + b.num * a.den, a.den * b.den) ELSE NaN

Sub(a, b) ==
    IF IsNum(a) /\ IsNum(b) THEN Rat(a.num * b.den - b.num * a.den, a.den * b.den) ELSE NaN

\* Math.floor of a non-negative number
Floor(a) == a.num \div a.den

Front(s) == SubSeq(s, 1, Len(s) - 1)

Last(s) == s[Len(s)]

\* KeysOf putting every new key in front of the keys seen before
RECURSIVE KeysOfNewestFirst(_, _)
KeysOfNewestFirst(data, f) ==
    IF data = <<>> THEN <<>>
    ELSE LET keys == KeysOfNewestFirst(Front(data), f)
             k    == Last(data)[f]
         IN  IF \E i \in 1..Len(keys) : keys[i] = k THEN keys ELSE <<k>> \o keys

\* the keys of an InternMap filled by one pass over data: first-seen order
RECURSIVE KeysOf(_, _)
KeysOf(data, f) ==
    IF data = <<>> THEN <<>>
    ELSE LET keys == KeysOf(Front(data), f)
             k    == Last(data)[f]
         IN  IF \E i \in 1..Len(keys) : keys[i] = k THEN keys ELSE Append(keys, k)

\* Group that starts a new entry whenever the key changes: a record whose key
\* was seen before the previous record's key lands in a second entry
RECURSIVE GroupRuns(_, _)
GroupRuns(data, f) ==
    IF data = <<>> THEN <<>>
    ELSE LET g == GroupRuns(Front(data), f)
             d == Last(data)
         IN  IF g # <<>> /\ Last(g).key = d[f]
             THEN [g EXCEPT ![Len(g)].values = Append(@, d)]
             ELSE Append(g, [key |-> d[f], values |-> <<d>>])

\* d3.group(data, d => d[f]): one entry per key, the records of a key in input order
Group(data, f) ==
    LET keys == KeysOf(data, f)
    IN  [i \in 1..Len(keys) |->
            [key |-> keys[i], values |-> SelectSeq(data, LAMBDA d : d[f] = keys[i])]]

\* stable insertion of x into s, ordered by the comparator
\*   (a, b) => a[f] - b[f]   (desc = FALSE)   or   (a, b) => b[f] - a[f]   (desc = TRUE);
\* a comparator result of NaN counts as 0
RECURSIVE Insert(_, _, _, _)
Insert(s, x, f, desc) ==
    IF s = <<>> THEN <<x>>
    ELSE LET e     == Last(s)
             after == IF desc THEN Lt(e[f], x[f]) ELSE Lt(x[f], e[f])
         IN  IF after THEN Append(Insert(Front(s), x, f, desc), e) ELSE Append(s, x)

\* Array.prototype.sort with one of the two comparators above
RECURSIVE SortBy(_, _, _)
SortBy(s, f, desc) ==
    IF s = <<>> THEN <<>> ELSE Insert(SortBy(Front(s), f, desc), Last(s), f, desc)

\* d3-array's numbers(): the values that are numbers, NaN and undefined dropped
Numbers(values) == SelectSeq(values, IsNum)

\* the numbers of values in ascending order
Ascending(values) ==
    LET boxed  == [i \in 1..Len(Numbers(values)) |-> [v |-> Numbers(values)[i]]]
        sorted == SortBy(boxed, "v", FALSE)
    IN  [i \in 1..Len(sorted) |-> sorted[i].v]

\* values.sort(d3.ascending): the numbers in ascending order; d3.ascending
\* answers NaN for a NaN operand, so the NaN entries keep no defined place
\* (they are put last here; every consumer below drops them again)
SortAscending(values) ==
    Ascending(values) \o SelectSeq(values, LAMBDA v : ~IsNum(v))

\* d3.min(values): undefined when no value is a number
Min(values) == IF Numbers(values) = <<>> THEN Undefined ELSE Ascending(values)[1]

\* d3.max(values)
Max(values) ==
    IF Numbers(values) = <<>> THEN Undefined ELSE Ascending(values)[Len(Numbers(values))]

\* Quantile without the interpolation: the order statistic at floor((n - 1) * p)
QuantileLower(values, p) ==
    LET v  == Ascending(values)
        n  == Len(v)
        i0 == Floor(Mul(Num(n - 1), p))
    IN  IF n = 0 THEN Undefined ELSE v[i0 + 1]

\* d3.quantile(values, p): drops the non-numbers, then interpolates between
\* the order statistics i0 and i0 + 1, i0 = floor((n - 1) * p)
Quantile(values, p) ==
    LET v  == Ascending(values)
        n  == Len(v)
        i  == Mul(Num(n - 1), p)
        i0 == Floor(i)
    IN  IF n = 0 THEN Undefined
        ELSE IF Le(p, Num(0)) \/ n < 2 THEN Min(values)
        ELSE IF Le(Num(1), p) THEN Max(values)
        ELSE Add(v[i0 + 1], Mul(Sub(v[i0 + 2], v[i0 + 1]), Sub(i, Num(i0))))

\* d3.median(data, d => d[f])
Median(data, f) == Quantile([i \in 1..Len(data) |-> data[i][f]], Rat(1, 2))

\* ---------------------------------------------------------------------- KPI
\* loadedData.filter(d => d.income === '>50K').length
HighIncomeCount(values) == Len(SelectSeq(values, LAMBDA d : d.income = HighIncome))

\* Kpi counting as high income every record that is not '<=50K'
KpiNotLow(loadedData) ==
    [total             |-> Len(loadedData),
     highIncomePercent |->
         Mul(Div(Num(Len(SelectSeq(loadedData, LAMBDA d : d.income # LowIncome))),
                 Num(Len(loadedData))),
             Num(100)),
     medianAge         |-> Median(loadedData, "age")]

\* the object handed to setKpi
Kpi(loadedData) ==
    [total             |-> Len(loadedData),
     highIncomePercent |-> Mul(Div(Num(HighIncomeCount(loadedData)), Num(Len(loadedData))),
                               Num(100)),
     medianAge         |-> Median(loadedData, "age")]

\* ------------------------------------------------------- chart aggregations
\* IncomeData with a reducer that forgets the size of the group
IncomeDataPresence(data) ==
    LET g == Group(data, "income")
    IN  [i \in 1..Len(g) |-> [key |-> g[i].key, value |-> 1]]

\* IncomeData counting into an entry prepared for each of the two income labels
IncomeDataBothLabels(data) ==
    <<[key |-> LowIncome, value |-> Len(SelectSeq(data, LAMBDA d : d.income = LowIncome))],
      [key |-> HighIncome, value |-> Len(SelectSeq(data, LAMBDA d : d.income = HighIncome))]>>

\* Array.from(d3.rollup(data, v => v.length, d => d.income), ...)
IncomeData(data) ==
    LET g == Group(data, "income")
    IN  [i \in 1..Len(g) |-> [key |-> g[i].key, value |-> Len(g[i].values)]]

\* Rate dividing by the records that do not match instead of by all of them
RateOdds(values) ==
    Div(Num(HighIncomeCount(values)), Num(Len(values) - HighIncomeCount(values)))

\* values.filter(d => d.income === '>50K').length / values.length
Rate(values) == Div(Num(HighIncomeCount(values)), Num(Len(values)))

EducationRates(data) ==
    LET g == Group(data, "education")
    IN  SortBy([i \in 1..Len(g) |->
                   [education    |-> g[i].key,
                    rate         |-> Rate(g[i].values),
                    total        |-> Len(g[i].values),
                    educationNum |-> g[i].values[1].educationNum]],
               "educationNum", FALSE)

\* SexRates with the comparator of the marital-status chart
SexRatesAscending(data) ==
    LET g == Group(data, "sex")
    IN  SortBy([i \in 1..Len(g) |-> [sex |-> g[i].key, rate |-> Rate(g[i].values)]],
               "rate", FALSE)

\* Array.from(d3.group(data, d => d.sex), ...).sort((a, b) => b.rate - a.rate)
SexRates(data) ==
    LET g == Group(data, "sex")
    IN  SortBy([i \in 1..Len(g) |-> [sex |-> g[i].key, rate |-> Rate(g[i].values)]],
               "rate", TRUE)

\* Array.from(d3.group(data, d => d['marital.status']), ...).sort((a, b) => a.rate - b.rate)
MaritalRates(data) ==
    LET g == Group(data, "marital")
    IN  SortBy([i \in 1..Len(g) |-> [status |-> g[i].key, rate |-> Rate(g[i].values)]],
               "rate", FALSE)

\* data.filter(d => d.occupation && d.occupation !== '?')
OccupationData(data) ==
    SelectSeq(data, LAMBDA d : Truthy(d.occupation) /\ d.occupation # Unknown)

OccupationRates(data) ==
    LET g == Group(OccupationData(data), "occupation")
    IN  SortBy([i \in 1..Len(g) |-> [occupation |-> g[i].key, rate |-> Rate(g[i].values)]],
               "rate", TRUE)

\* FiveNumbers reading min and max off the ends of the column as it came
FiveNumbersUnsorted(d, f) ==
    LET column == [i \in 1..Len(d) |-> d[i][f]]
    IN  [q1     |-> Quantile(SortAscending(column), Rat(1, 4)),
         median |-> Quantile(SortAscending(column), Rat(1, 2)),
         q3     |-> Quantile(SortAscending(column), Rat(3, 4)),
         min    |-> column[1],
         max    |-> column[Len(column)]]

\* the reducer of the box-plot rollups, on the group d and the column f
FiveNumbers(d, f) ==
    LET column == [i \in 1..Len(d) |-> d[i][f]]
    IN  [q1     |-> Quantile(SortAscending(column), Rat(1, 4)),
         median |-> Quantile(SortAscending(column), Rat(1, 2)),
         q3     |-> Quantile(SortAscending(column), Rat(3, 4)),
         min    |-> Min(column),
         max    |-> Max(column)]

\* Array.from(d3.rollup(data, d => FiveNumbers, d => d.income), ...)
Sumstat(data, f) ==
    LET g == Group(data, "income")
    IN  [i \in 1..Len(g) |-> [key |-> g[i].key, value |-> FiveNumbers(g[i].values, f)]]

\* data.filter(d => d['capital.gain'] > 0)
GainsData(data) == SelectSeq(data, LAMBDA d : Lt(Num(0), d.capitalGain))

\* ------------------------------------------------------------------ d3-scale
\* d3.scaleLinear().domain(domain).range(range); domain() coerces its ends
\* with +x, so the undefined of d3.max over no groups becomes NaN
ScaleLinear(domain, range) ==
    [domain |-> <<ToNumber(domain[1]), ToNumber(domain[2])>>, range |-> range]

\* the linear scale applied to v: undefined for undefined and NaN, otherwise
\* the interpolation r0 * (1 - t) + r1 * t at t = (v - d0) / (d1 - d0); the
\* scale does not clamp, and a domain of width 0 gives t = 0.5 for every v
Linear(scale, v) ==
    LET x   == ToNumber(v)
        rev == Lt(scale.domain[2], scale.domain[1])
        a   == IF rev THEN scale.domain[2] ELSE scale.domain[1]
        b   == Sub(IF rev THEN scale.domain[1] ELSE scale.domain[2], a)
        r0  == IF rev THEN scale.range[2] ELSE scale.range[1]
        r1  == IF rev THEN scale.range[1] ELSE scale.range[2]
        t   == IF IsNum(b) /\ b.num # 0 THEN Div(Sub(x, a), b)
               ELSE IF IsNum(b) THEN Rat(1, 2)
               ELSE NaN
    IN  IF v.kind \in {"undefined", "null"} \/ ~IsNum(x) THEN Undefined
        ELSE Add(Mul(r0, Sub(Num(1), t)), Mul(r1, t))

\* the domain of an ordinal scale: the keys without their repetitions
RECURSIVE Distinct(_)
Distinct(keys) ==
    IF keys = <<>> THEN <<>>
    ELSE LET d == Distinct(Front(keys))
         IN  IF \E i \in 1..Len(d) : d[i] = Last(keys) THEN d ELSE Append(d, Last(keys))

\* ScaleBand with padding() setting the inner padding only
ScaleBandInner(keys, range, padding) ==
    LET domain  == Distinct(keys)
        n       == Len(domain)
        reverse == Lt(range[2], range[1])
        start   == IF reverse THEN range[2] ELSE range[1]
        stop    == IF reverse THEN range[1] ELSE range[2]
        slots   == Sub(Num(n), padding)
        step    == Div(Sub(stop, start), IF Lt(slots, Num(1)) THEN Num(1) ELSE slots)
        first   == Add(start, Mul(Sub(Sub(stop, start), Mul(step, Sub(Num(n), padding))),
                                  Rat(1, 2)))
    IN  [domain    |-> domain,
         range     |-> range,
         padding   |-> padding,
         step      |-> step,
         bandwidth |-> Mul(step, Sub(Num(1), padding)),
         values    |-> [i \in 1..n |->
                           Add(first, Mul(step, Num(IF reverse THEN n - i ELSE i - 1)))]]

\* d3.scaleBand().range(range).domain(keys).padding(padding): padding() sets
\* the inner and the outer padding; rescale() computes
\*   step = (stop - start) / max(1, n - paddingInner + 2 * paddingOuter),
\*   start += (stop - start - step * (n - paddingInner)) * align   (align 0.5),
\*   bandwidth = step * (1 - paddingInner),
\* and the bands start at start + step * i, in reverse for a reversed range
ScaleBand(keys, range, padding) ==
    LET domain  == Distinct(keys)
        n       == Len(domain)
        reverse == Lt(range[2], range[1])
        start   == IF reverse THEN range[2] ELSE range[1]
        stop    == IF reverse THEN range[1] ELSE range[2]
        slots   == Add(Sub(Num(n), padding), Mul(padding, Num(2)))
        step    == Div(Sub(stop, start), IF Lt(slots, Num(1)) THEN Num(1) ELSE slots)
        first   == Add(start, Mul(Sub(Sub(stop, start), Mul(step, Sub(Num(n), padding))),
                                  Rat(1, 2)))
    IN  [domain    |-> domain,
         range     |-> range,
         padding   |-> padding,
         step      |-> step,
         bandwidth |-> Mul(step, Sub(Num(1), padding)),
         values    |-> [i \in 1..n |->
                           Add(first, Mul(step, Num(IF reverse THEN n - i ELSE i - 1)))]]

\* the band scale applied to a key: undefined for a key outside the domain
Band(scale, key) ==
    IF \E i \in 1..Len(scale.domain) : scale.domain[i] = key
    THEN scale.values[CHOOSE i \in 1..Len(scale.domain) : scale.domain[i] = key]
    ELSE Undefined

\* ------------------------------------------------------------- chart drawing
\* d3.sum of a sequence of counts
RECURSIVE Sum(_)
Sum(values) == IF values = <<>> THEN 0 ELSE Sum(Front(values)) + Last(values)

\* d3.pie().value(d => d.value).sort(null): the arcs in the order of the
\* entries, each from the running share of the total to the next; the angles
\* are in turns (the angle divided by 2 * Math.PI)
Pie(incomeData) ==
    LET value == [i \in 1..Len(incomeData) |-> incomeData[i].value]
    IN  [i \in 1..Len(incomeData) |->
            [key        |-> incomeData[i].key,
             startAngle |-> Div(Num(Sum(SubSeq(value, 1, i - 1))), Num(Sum(value))),
             endAngle   |-> Div(Num(Sum(SubSeq(value, 1, i))), Num(Sum(value)))]]

\* the attributes of the rects of EducationChart once their transition ended
EducationBars(educationRates) ==
    LET width  == 800 - 60 - 30
        height == 400 - 20 - 100
        x == ScaleBand([i \in 1..Len(educationRates) |-> educationRates[i].education],
                       <<Num(0), Num(width)>>, Rat(2, 10))
        y == ScaleLinear(<<Num(0), Num(1)>>, <<Num(height), Num(0)>>)
    IN  [band   |-> x,
         linear |-> y,
         rects  |-> [i \in 1..Len(educationRates) |->
                        [key    |-> educationRates[i].education,
                         x      |-> Band(x, educationRates[i].education),
                         y      |-> Linear(y, educationRates[i].rate),
                         width  |-> x.bandwidth,
                         height |-> Sub(Num(height), Linear(y, educationRates[i].rate))]]]

\* the rects of SexChart
SexBars(sexRates) ==
    LET width  == 300 - 60 - 30
        height == 250 - 20 - 40
        rate   == [i \in 1..Len(sexRates) |-> sexRates[i].rate]
        x == ScaleBand([i \in 1..Len(sexRates) |-> sexRates[i].sex],
                       <<Num(0), Num(width)>>, Rat(4, 10))
        y == ScaleLinear(<<Num(0), Max(rate)>>, <<Num(height), Num(0)>>)
    IN  [band   |-> x,
         linear |-> y,
         rects  |-> [i \in 1..Len(sexRates) |->
                        [key    |-> sexRates[i].sex,
                         x      |-> Band(x, sexRates[i].sex),
                         y      |-> Linear(y, sexRates[i].rate),
                         width  |-> x.bandwidth,
                         height |-> Sub(Num(height), Linear(y, sexRates[i].rate))]]]

\* the rects of MaritalStatusChart
MaritalBars(maritalRates) ==
    LET width  == 800 - 150 - 30
        height == 400 - 20 - 40
        rate   == [i \in 1..Len(maritalRates) |-> maritalRates[i].rate]
        y == ScaleBand([i \in 1..Len(maritalRates) |-> maritalRates[i].status],
                       <<Num(height), Num(0)>>, Rat(2, 10))
        x == ScaleLinear(<<Num(0), Max(rate)>>, <<Num(0), Num(width)>>)
    IN  [band   |-> y,
         linear |-> x,
         rects  |-> [i \in 1..Len(maritalRates) |->
                        [key    |-> maritalRates[i].status,
                         y      |-> Band(y, maritalRates[i].status),
                         x      |-> Linear(x, Num(0)),
                         height |-> y.bandwidth,
                         width  |-> Linear(x, maritalRates[i].rate)]]]

\* the rects of OccupationChart
OccupationBars(occupationRates) ==
    LET width  == 1100 - 120 - 30
        height == 400 - 20 - 40
        rate   == [i \in 1..Len(occupationRates) |-> occupationRates[i].rate]
        y == ScaleBand([i \in 1..Len(occupationRates) |-> occupationRates[i].occupation],
                       <<Num(0), Num(height)>>, Rat(1, 10))
        x == ScaleLinear(<<Num(0), Max(rate)>>, <<Num(0), Num(width)>>)
    IN  [band   |-> y,
         linear |-> x,
         rects  |-> [i \in 1..Len(occupationRates) |->
                        [key    |-> occupationRates[i].occupation,
                         y      |-> Band(y, occupationRates[i].occupation),
                         x      |-> Num(0),
                         height |-> y.bandwidth,
                         width  |-> Linear(x, occupationRates[i].rate)]]]

\* the whisker, the box and the median line the box-plot charts draw for every
\* entry of sumstatArray, on a band scale over the two income labels and a
\* linear scale with a fixed domain
BoxPlot(sumstatArray, domain, width, height) ==
    LET y == ScaleBand(<<LowIncome, HighIncome>>, <<Num(height), Num(0)>>, Rat(1, 10))
        x == ScaleLinear(domain, <<Num(0), Num(width)>>)
    IN  [band   |-> y,
         linear |-> x,
         boxes  |-> [i \in 1..Len(sumstatArray) |->
            LET d == sumstatArray[i]
            IN  [key        |-> d.key,
                 vertLine   |-> [y1 |-> Add(Band(y, d.key), Div(y.bandwidth, Num(2))),
                                 y2 |-> Add(Band(y, d.key), Div(y.bandwidth, Num(2))),
                                 x1 |-> Linear(x, d.value.min),
                                 x2 |-> Linear(x, d.value.max)],
                 box        |-> [y      |-> Band(y, d.key),
                                 x      |-> Linear(x, d.value.q1),
                                 width  |-> Sub(Linear(x, d.value.q3), Linear(x, d.value.q1)),
                                 height |-> y.bandwidth],
                 medianLine |-> [y1 |-> Band(y, d.key),
                                 y2 |-> Add(Band(y, d.key), y.bandwidth),
                                 x1 |-> Linear(x, d.value.median),
                                 x2 |-> Linear(x, d.value.median)]]]]

AgeBoxes(sumstatArray) ==
    BoxPlot(sumstatArray, <<Num(15), Num(95)>>, 1100 - 60 - 30, 250 - 20 - 50)

HoursBoxes(sumstatArray) ==
    BoxPlot(sumstatArray, <<Num(0), Num(100)>>, 500 - 60 - 30, 400 - 20 - 50)

CapitalGainsBoxes(sumstatArray) ==
    BoxPlot(sumstatArray, <<Num(0), Num(100000)>>, 1100 - 60 - 30, 400 - 20 - 50)

\* ------------------------------------------------------------------ chatbot
\* the texts of the chatbot, each an atomic word
Greeting == Str(<<"Hello! I'm your data guide.">>)

HelpResponse == Str(<<"You can ask me to explain charts">>)

AgeResponse == Str(<<"The 'Income Distribution by Age' chart">>)

EducationResponse == Str(<<"The 'High Income Rate by Education Level' bar chart">>)

SexResponse == Str(<<"The 'High Income Rate by Sex' chart">>)

MaritalResponse == Str(<<"individuals with a 'Married-civ-spouse' status">>)

GainsResponse == Str(<<"This chart shows the distribution of capital gains.">>)

OccupationResponse == Str(<<"This chart ranks jobs">>)

InsightResponse == Str(<<"A key insight">>)

FallbackResponse == Str(<<"I'm sorry, I'm not sure how to answer that.">>)

\* String.prototype.toLowerCase on the words the chat inputs are made of
ToLowerCase(v) ==
    Str([i \in 1..Len(v.chars) |->
            CASE v.chars[i] = "HELP" -> "help"
              [] v.chars[i] = "Age" -> "age"
              [] v.chars[i] = "Insight" -> "insight"
              [] OTHER -> v.chars[i]])

\* String.prototype.includes: word occurs in v as a run of adjacent tokens
Includes(v, word) ==
    \E i \in 0..(Len(v.chars) - Len(word)) : SubSeq(v.chars, i + 1, i + Len(word)) = word

\* getBotResponse asking for 'age' before 'help'
getBotResponseAgeFirst(userInput) ==
    LET lowerInput == Trim(ToLowerCase(userInput))
    IN  IF Includes(lowerInput, <<"age">>) THEN AgeResponse
        ELSE IF Includes(lowerInput, <<"help">>) THEN HelpResponse
        ELSE IF Includes(lowerInput, <<"education">>) THEN EducationResponse
        ELSE IF Includes(lowerInput, <<"sex">>) THEN SexResponse
        ELSE IF Includes(lowerInput, <<"marital", Space, "status">>) THEN MaritalResponse
        ELSE IF Includes(lowerInput, <<"capital", Space, "gain">>) THEN GainsResponse
        ELSE IF Includes(lowerInput, <<"occupation">>) THEN OccupationResponse
        ELSE IF Includes(lowerInput, <<"takeaway">>) \/ Includes(lowerInput, <<"insight">>)
             THEN InsightResponse
        ELSE FallbackResponse

getBotResponse(userInput) ==
    LET lowerInput == Trim(ToLowerCase(userInput))
    IN  IF Includes(lowerInput, <<"help">>) THEN HelpResponse
        ELSE IF Includes(lowerInput, <<"age">>) THEN AgeResponse
        ELSE IF Includes(lowerInput, <<"education">>) THEN EducationResponse
        ELSE IF Includes(lowerInput, <<"sex">>) THEN SexResponse
        ELSE IF Includes(lowerInput, <<"marital", Space, "status">>) THEN MaritalResponse
        ELSE IF Includes(lowerInput, <<"capital", Space, "gain">>) THEN GainsResponse
        ELSE IF Includes(lowerInput, <<"occupation">>) THEN OccupationResponse
        ELSE IF Includes(lowerInput, <<"takeaway">>) \/ Includes(lowerInput, <<"insight">>)
             THEN InsightResponse
        ELSE FallbackResponse

\* ------------------------------------------------------------ input space
\* one parsed row of adult.csv: the numeric columns hold the text n, the
\* categorical columns other than income the text c, the income column i
MkRow(n, c, i) ==
    [age |-> n, hours |-> n, educationNum |-> n, capitalGain |-> n, capitalLoss |-> n,
     income |-> i, education |-> c, occupation |-> c, sex |-> c, marital |-> c]

T20 == Str(<<"2", "0">>)

T10 == Str(<<"1", "0">>)

T40 == Str(<<Space, "4", "0">>)

TEmpty == Str(<<>>)

TBlank == Str(<<Space>>)

TWord == Str(<<"x">>)

CatA == Str(<<"A">>)

CatB == Str(<<Space, "B", Space>>)

HighPadded == Str(<<Space, ">50K">>)

\* a column absent from the file reads as undefined, an empty field as ""
NumTexts == {T20, T40, TEmpty, TBlank, TWord, Undefined}

CatTexts == {CatA, CatB, TEmpty, TBlank, Unknown, Undefined}

IncomeTexts == {LowIncome, HighIncome, HighPadded, TEmpty, TBlank, Undefined}

\* the rows of one file differ from the row (T20, CatA, LowIncome) in at most
\* two of the three column groups
Slices ==
    { {MkRow(n, CatA, LowIncome) : n \in NumTexts},
      {MkRow(T20, c, LowIncome) : c \in CatTexts},
      {MkRow(T20, CatA, i) : i \in IncomeTexts},
      {MkRow(n, CatA, i) : n \in {T10, T20, T40, TWord}, i \in {LowIncome, HighIncome}},
      {MkRow(T20, c, i) : c \in {CatA, CatB, Unknown, TEmpty}, i \in {LowIncome, HighIncome}},
      {MkRow(n, c, LowIncome) : n \in {T20, T40, TWord}, c \in {CatA, CatB}},
      {MkRow(T40, CatA, LowIncome), MkRow(TWord, CatB, LowIncome),
       MkRow(T20, Unknown, LowIncome)} }

SeqsUpTo(S, n) == UNION {[1..k -> S] : k \in 0..n}

Datasets == UNION {SeqsUpTo(S, MaxRecords) : S \in Slices}

SampleValues == {Num(10), Num(20), Num(30), Num(40), NaN}

Samples == SeqsUpTo(SampleValues, MaxSample)

Quartiles == {Rat(1, 4), Rat(1, 2), Rat(3, 4)}

\* the files loaded while the visitor's events are followed
UIDatasets == SeqsUpTo({MkRow(T20, CatA, LowIncome), MkRow(T40, CatB, HighIncome)}, MaxUIRecords)

\* what the visitor types into the chat
ChatTexts == {TEmpty, TBlank, Str(<<"help">>), Str(<<Space, "Age", Space>>)}

\* the words of the questions put to getBotResponse, and the questions
ChatWords ==
    {Space, "help", "HELP", "age", "education", "sex", "marital", "status", "capital",
     "gain", "occupation", "takeaway", "Insight", "x"}

ChatInputs == {Str(w) : w \in SeqsUpTo(ChatWords, MaxWords)}

\* -------------------------------------------------------------------- state
VARIABLES
    csv,              \* the request of d3.csv: "unloaded", "pending", "fulfilled", "rejected"
    source,           \* the rows as parsed, before cleaning overwrote them
    data,             \* useState(null)
    loading,          \* useState(true)
    error,            \* useState(null)
    kpi,              \* useState(null)
    batched,          \* the root renders once per callback (createRoot) or once per setter
    handler,          \* the next setter of a callback that renders once per setter
    drawn,            \* how many chart effects have run for the current data
    incomeData,       \* IncomeDistributionChart
    educationRates,   \* EducationChart
    sexRates,         \* SexChart
    maritalRates,     \* MaritalStatusChart
    ageSumstat,       \* AgeChart
    hoursSumstat,     \* HoursChart
    gainsSumstat,     \* CapitalGainsChart
    occupationRates,  \* OccupationChart
    runs,             \* how often the KPI and every chart aggregation was computed
    pointer,          \* the chart shape under the mouse pointer
    tooltip,          \* the element #tooltip
    isOpen,           \* Chatbot: useState(false)
    messages,         \* Chatbot: useState([greeting])
    inputValue,       \* Chatbot: useState('')
    timers,           \* the bot messages of the pending setTimeout callbacks
    sample,           \* a numeric column handed to d3.quantile
    quartile          \* the last quantile computed from sample

charts == <<incomeData, educationRates, sexRates, maritalRates, ageSumstat,
            hoursSumstat, gainsSumstat, occupationRates>>

app == <<csv, source, data, loading, error, kpi>>

hover == <<pointer, tooltip>>

chat == <<isOpen, messages, inputValue, timers>>

vars == <<app, batched, handler, drawn, charts, runs, hover, chat, sample, quartile>>

ChartNames ==
    {"income", "education", "sex", "marital", "age", "hours", "gains", "occupation"}

\* the state of the first render: nothing requested, nothing drawn
FirstRender ==
    /\ csv = "unloaded"
    /\ source = Null
    /\ data = Null
    /\ loading = TRUE
    /\ error = Null
    /\ kpi = Null
    /\ batched \in BOOLEAN
    /\ handler = "none"
    /\ drawn = 0
    /\ incomeData = Null
    /\ educationRates = Null
    /\ sexRates = Null
    /\ maritalRates = Null
    /\ ageSumstat = Null
    /\ hoursSumstat = Null
    /\ gainsSumstat = Null
    /\ occupationRates = Null
    /\ runs = [c \in ChartNames \cup {"kpi"} |-> 0]
    /\ pointer = Null
    /\ tooltip = [opacity |-> 0, html |-> Null]
    /\ isOpen = FALSE
    /\ messages = <<[sender |-> "bot", text |-> Greeting]>>
    /\ inputValue = Str(<<>>)
    /\ timers = <<>>

Init ==
    /\ FirstRender
    /\ sample = <<>>
    /\ quartile = Null

\* ------------------------------------------------------------------ actions
\* useEffect(() => { d3.csv("adult.csv") ... }, []): the request goes out once
LoadEffect ==
    /\ csv = "unloaded"
    /\ csv' = "pending"
    /\ UNCHANGED <<batched, source, data, loading, error, kpi, handler, drawn, charts, runs,
                   hover, chat, sample, quartile>>

\* d3.csv("adult.csv").then(loadedData => { ... }) on a root that batches the
\* three setters into one render
Then(loadedData) ==
    /\ csv' = "fulfilled"
    /\ source' = Arr(loadedData)
    /\ data' = Arr(Clean(loadedData))
    /\ kpi' = Kpi(Clean(loadedData))
    /\ runs' = [runs EXCEPT !.kpi = @ + 1]
    /\ loading' = FALSE
    /\ UNCHANGED <<batched, error, handler, drawn, charts, hover, chat, sample, quartile>>

\* the promise settles with the parsed rows of some file
CsvThen == csv = "pending" /\ batched /\ \E loadedData \in Datasets : Then(loadedData)

\* the same callback on a root where a setter outside a React event handler
\* renders at once: the cleaning and setData(loadedData) ...
ThenSetData(loadedData) ==
    /\ csv' = "fulfilled"
    /\ source' = Arr(loadedData)
    /\ data' = Arr(Clean(loadedData))
    /\ handler' = "setKpi"
    /\ UNCHANGED <<batched, loading, error, kpi, drawn, charts, runs, hover, chat, sample,
                   quartile>>

CsvThenSetData ==
    csv = "pending" /\ ~batched /\ \E loadedData \in Datasets : ThenSetData(loadedData)

\* ThenSetKpi counting the high incomes by removing every other record from
\* loadedData, the array that setData has stored
ThenSetKpiSplices ==
    /\ handler = "setKpi"
    /\ data' = Arr(SelectSeq(data.items, LAMBDA d : d.income = HighIncome))
    /\ kpi' = Kpi(data.items)
    /\ runs' = [runs EXCEPT !.kpi = @ + 1]
    /\ handler' = "setLoading"
    /\ UNCHANGED <<batched, csv, source, loading, error, drawn, charts, hover, chat,
                   sample, quartile>>

\* ... the KPI computation and setKpi({ ... }) ...
ThenSetKpi ==
    /\ handler = "setKpi"
    /\ kpi' = Kpi(data.items)
    /\ runs' = [runs EXCEPT !.kpi = @ + 1]
    /\ handler' = "setLoading"
    /\ UNCHANGED <<batched, csv, source, data, loading, error, drawn, charts, hover, chat,
                   sample, quartile>>

\* ThenSetLoading ending the callback without its setLoading(false)
ThenSetLoadingSkipped ==
    /\ handler = "setLoading"
    /\ drawn = 8
    /\ handler' = "none"
    /\ UNCHANGED <<batched, csv, source, data, loading, error, kpi, drawn, charts, runs,
                   hover, chat, sample, quartile>>

\* ... and setLoading(false): React flushes the effects of the render before
\* (the chart effects) ahead of the render this setter starts
ThenSetLoading ==
    /\ handler = "setLoading"
    /\ drawn = 8
    /\ loading' = FALSE
    /\ handler' = "none"
    /\ UNCHANGED <<batched, csv, source, data, error, kpi, drawn, charts, runs, hover, chat,
                   sample, quartile>>

\* CsvCatch without its setLoading(false)
CsvCatchKeepsLoading ==
    /\ csv = "pending" /\ batched
    /\ csv' = "rejected"
    /\ error' = ErrorMessage
    /\ UNCHANGED <<batched, source, data, loading, kpi, handler, drawn, charts, runs, hover,
                   chat, sample, quartile>>

\* CsvCatch falling back to an empty record set
CsvCatchFallback ==
    /\ csv = "pending" /\ batched
    /\ csv' = "rejected"
    /\ error' = ErrorMessage
    /\ loading' = FALSE
    /\ data' = Arr(<<>>)
    /\ kpi' = Kpi(<<>>)
    /\ runs' = [runs EXCEPT !.kpi = @ + 1]
    /\ UNCHANGED <<batched, source, handler, drawn, charts, hover, chat, sample, quartile>>

\* .catch(err => { ... }) with the two setters batched into one render
CsvCatch ==
    /\ csv = "pending" /\ batched
    /\ csv' = "rejected"
    /\ error' = ErrorMessage
    /\ loading' = FALSE
    /\ UNCHANGED <<batched, source, data, kpi, handler, drawn, charts, runs, hover, chat,
                   sample, quartile>>

\* the same callback rendering after setError(...) ...
CatchSetError ==
    /\ csv = "pending" /\ ~batched
    /\ csv' = "rejected"
    /\ error' = ErrorMessage
    /\ handler' = "catchSetLoading"
    /\ UNCHANGED <<batched, source, data, loading, kpi, drawn, charts, runs, hover, chat,
                   sample, quartile>>

\* ... and after setLoading(false)
CatchSetLoading ==
    /\ handler = "catchSetLoading"
    /\ loading' = FALSE
    /\ handler' = "none"
    /\ UNCHANGED <<batched, csv, source, data, error, kpi, drawn, charts, runs, hover, chat,
                   sample, quartile>>

\* Mounted with the condition  data && ( ... )  of the earlier revisions
MountedOnData == data # Null

\* the charts are mounted by  data && kpi && ( ... ) ; their effects run in
\* the order of the components, each once per value of data
Mounted == data # Null /\ kpi # Null

\* what the effect of a chart has drawn into its svg element: every effect
\* draws from the aggregate it has just computed, and nothing redraws later
Svg(chart) ==
    CASE chart = "income" ->
            IF incomeData = Null THEN Null ELSE Pie(incomeData.items)
      [] chart = "education" ->
            IF educationRates = Null THEN Null ELSE EducationBars(educationRates.items)
      [] chart = "sex" ->
            IF sexRates = Null THEN Null ELSE SexBars(sexRates.items)
      [] chart = "marital" ->
            IF maritalRates = Null THEN Null ELSE MaritalBars(maritalRates.items)
      [] chart = "age" ->
            IF ageSumstat = Null THEN Null ELSE AgeBoxes(ageSumstat.items)
      [] chart = "hours" ->
            IF hoursSumstat = Null THEN Null ELSE HoursBoxes(hoursSumstat.items)
      [] chart = "gains" ->
            IF gainsSumstat = Null THEN Null ELSE CapitalGainsBoxes(gainsSumstat.items)
      [] chart = "occupation" ->
            IF occupationRates = Null THEN Null ELSE OccupationBars(occupationRates.items)

IncomeDistributionChart ==
    /\ Mounted /\ drawn = 0
    /\ incomeData' = Arr(IncomeData(data.items))
    /\ runs' = [runs EXCEPT !.income = @ + 1]
    /\ drawn' = 1
    /\ UNCHANGED <<batched, app, handler, educationRates, sexRates, maritalRates,
                   ageSumstat, hoursSumstat, gainsSumstat, occupationRates, hover, chat,
                   sample, quartile>>

EducationChart ==
    /\ Mounted /\ drawn = 1
    /\ educationRates' = Arr(EducationRates(data.items))
    /\ runs' = [runs EXCEPT !.education = @ + 1]
    /\ drawn' = 2
    /\ UNCHANGED <<batched, app, handler, incomeData, sexRates, maritalRates, ageSumstat,
                   hoursSumstat, gainsSumstat, occupationRates, hover, chat, sample,
                   quartile>>

SexChart ==
    /\ Mounted /\ drawn = 2
    /\ sexRates' = Arr(SexRates(data.items))
    /\ runs' = [runs EXCEPT !.sex = @ + 1]
    /\ drawn' = 3
    /\ UNCHANGED <<batched, app, handler, incomeData, educationRates, maritalRates,
                   ageSumstat, hoursSumstat, gainsSumstat, occupationRates, hover, chat,
                   sample, quartile>>

MaritalStatusChart ==
    /\ Mounted /\ drawn = 3
    /\ maritalRates' = Arr(MaritalRates(data.items))
    /\ runs' = [runs EXCEPT !.marital = @ + 1]
    /\ drawn' = 4
    /\ UNCHANGED <<batched, app, handler, incomeData, educationRates, sexRates, ageSumstat,
                   hoursSumstat, gainsSumstat, occupationRates, hover, chat, sample,
                   quartile>>

AgeChart ==
    /\ Mounted /\ drawn = 4
    /\ ageSumstat' = Arr(Sumstat(data.items, "age"))
    /\ runs' = [runs EXCEPT !.age = @ + 1]
    /\ drawn' = 5
    /\ UNCHANGED <<batched, app, handler, incomeData, educationRates, sexRates,
                   maritalRates, hoursSumstat, gainsSumstat, occupationRates, hover, chat,
                   sample, quartile>>

HoursChart ==
    /\ Mounted /\ drawn = 5
    /\ hoursSumstat' = Arr(Sumstat(data.items, "hours"))
    /\ runs' = [runs EXCEPT !.hours = @ + 1]
    /\ drawn' = 6
    /\ UNCHANGED <<batched, app, handler, incomeData, educationRates, sexRates,
                   maritalRates, ageSumstat, gainsSumstat, occupationRates, hover, chat,
                   sample, quartile>>

CapitalGainsChart ==
    /\ Mounted /\ drawn = 6
    /\ gainsSumstat' = Arr(Sumstat(GainsData(data.items), "capitalGain"))
    /\ runs' = [runs EXCEPT !.gains = @ + 1]
    /\ drawn' = 7
    /\ UNCHANGED <<batched, app, handler, incomeData, educationRates, sexRates,
                   maritalRates, ageSumstat, hoursSumstat, occupationRates, hover, chat,
                   sample, quartile>>

OccupationChart ==
    /\ Mounted /\ drawn = 7
    /\ occupationRates' = Arr(OccupationRates(data.items))
    /\ runs' = [runs EXCEPT !.occupation = @ + 1]
    /\ drawn' = 8
    /\ UNCHANGED <<batched, app, handler, incomeData, educationRates, sexRates,
                   maritalRates, ageSumstat, hoursSumstat, gainsSumstat, hover, chat,
                   sample, quartile>>

Next ==
    \/ LoadEffect
    \/ CsvThen
    \/ CsvThenSetData
    \/ ThenSetKpi
    \/ ThenSetLoading
    \/ CsvCatch
    \/ CatchSetError
    \/ CatchSetLoading
    \/ IncomeDistributionChart
    \/ EducationChart
    \/ SexChart
    \/ MaritalStatusChart
    \/ AgeChart
    \/ HoursChart
    \/ CapitalGainsChart
    \/ OccupationChart

Spec == Init /\ [][Next]_vars

\* a callback that has begun runs to its end, and React runs the effects of
\* the charts it has mounted: weak fairness of the steps of the callbacks and
\* of the chart effects.  ThenSetKpi is enabled exactly when handler is
\* "setKpi", a chart effect exactly when Mounted /\ drawn < 8, and each of
\* these steps leaves the states that enable it; their weak fairness is
\* written as the recurrence of the states in which they are not enabled.
Fairness ==
    /\ WF_vars(ThenSetLoading)
    /\ WF_vars(CatchSetLoading)
    /\ []<>(handler # "setKpi")
    /\ []<>~(Mounted /\ drawn < 8)

SpecFair == Spec /\ Fairness

\* -------------------------------------------------------------- interaction
\* no callback is under way and no chart effect is pending: the browser
\* dispatches the next event
Idle == handler = "none" /\ (Mounted => drawn = 8)

\* the charts whose shapes carry mouse listeners, and the data bound to them
HoverCharts == {"income", "education", "sex", "marital", "occupation"}

Bound(c) ==
    CASE c = "income" -> incomeData
      [] c = "education" -> educationRates
      [] c = "sex" -> sexRates
      [] c = "marital" -> maritalRates
      [] c = "occupation" -> occupationRates

\* Number.prototype.toFixed(1) of a number that is not negative: its tenths,
\* rounded to the nearest, a half upwards
ToFixed(x) ==
    IF IsNum(x) THEN [kind |-> "decimal", tenths |-> Floor(Add(Mul(x, Num(10)), Rat(1, 2)))]
    ELSE Str(<<"NaN">>)

\* the text the mousemove listener of chart c writes for the datum d
TooltipHtml(c, d) ==
    IF c = "income"
    THEN LET total == Sum([i \in 1..Len(incomeData.items) |-> incomeData.items[i].value])
         IN  [key     |-> d.key,
              value   |-> d.value,
              percent |-> ToFixed(Mul(Div(Num(d.value), Num(total)), Num(100)))]
    ELSE [key     |-> CASE c = "education" -> d.education
                        [] c = "sex" -> d.sex
                        [] c = "marital" -> d.status
                        [] c = "occupation" -> d.occupation,
          percent |-> ToFixed(Mul(d.rate, Num(100)))]

\* .on("mouseover", ...) of shape i of chart c: the pointer enters the shape
MouseOver(c, i) ==
    /\ Idle /\ drawn = 8
    /\ pointer = Null
    /\ i \in 1..Len(Bound(c).items)
    /\ pointer' = [chart |-> c, index |-> i]
    /\ tooltip' = [tooltip EXCEPT !.opacity = 1]
    /\ UNCHANGED <<batched, app, handler, drawn, charts, runs, chat, sample, quartile>>

\* .on("mousemove", ...): the pointer moves inside the shape
MouseMove ==
    /\ Idle
    /\ pointer # Null
    /\ tooltip' = [tooltip EXCEPT
                      !.html = TooltipHtml(pointer.chart, Bound(pointer.chart).items[pointer.index])]
    /\ UNCHANGED <<batched, app, handler, drawn, charts, runs, pointer, chat, sample, quartile>>

\* MouseOut storing a copy of the records, which mounts the charts anew
MouseOutRedraws ==
    /\ Idle
    /\ pointer # Null
    /\ pointer' = Null
    /\ tooltip' = [tooltip EXCEPT !.opacity = 0]
    /\ drawn' = 0
    /\ UNCHANGED <<batched, app, handler, charts, runs, chat, sample, quartile>>

\* .on("mouseout", ...): the pointer leaves the shape
MouseOut ==
    /\ Idle
    /\ pointer # Null
    /\ pointer' = Null
    /\ tooltip' = [tooltip EXCEPT !.opacity = 0]
    /\ UNCHANGED <<batched, app, handler, drawn, charts, runs, chat, sample, quartile>>

\* onClick={() => setIsOpen(true)} of the button shown while the chat is closed
OpenChat ==
    /\ Idle /\ ~isOpen
    /\ isOpen' = TRUE
    /\ UNCHANGED <<batched, app, handler, drawn, charts, runs, hover, messages, inputValue, timers,
                   sample, quartile>>

\* onClick={() => setIsOpen(false)}
CloseChat ==
    /\ Idle /\ isOpen
    /\ isOpen' = FALSE
    /\ UNCHANGED <<batched, app, handler, drawn, charts, runs, hover, messages, inputValue, timers,
                   sample, quartile>>

\* onChange={(e) => setInputValue(e.target.value)}
OnChange(value) ==
    /\ Idle /\ isOpen
    /\ inputValue' = value
    /\ UNCHANGED <<batched, app, handler, drawn, charts, runs, hover, isOpen, messages, timers,
                   sample, quartile>>

\* onSubmit={handleSendMessage}: a blank input returns at once; otherwise the
\* user message is appended, the reply is left to a timer and the input cleared
handleSendMessage ==
    /\ Idle /\ isOpen
    /\ IF ~Truthy(Trim(inputValue))
       THEN UNCHANGED <<batched, messages, timers, inputValue>>
       ELSE /\ Len(messages) + Len(timers) < 1 + 2 * MaxSubmits
            /\ messages' = Append(messages, [sender |-> "user", text |-> inputValue])
            /\ timers' = Append(timers, [sender |-> "bot", text |-> getBotResponse(inputValue)])
            /\ inputValue' = Str(<<>>)
    /\ UNCHANGED <<batched, app, handler, drawn, charts, runs, hover, isOpen, sample, quartile>>

\* BotReply taking the timer that was set last
BotReplyNewestFirst ==
    /\ Idle /\ timers # <<>>
    /\ messages' = Append(messages, Last(timers))
    /\ timers' = Front(timers)
    /\ UNCHANGED <<batched, app, handler, drawn, charts, runs, hover, isOpen, inputValue, sample,
                   quartile>>

\* setTimeout(() => setMessages(prev => [...prev, botMessage]), 500): the
\* timers have the same delay, so they fire in the order they were set
BotReply ==
    /\ Idle /\ timers # <<>>
    /\ messages' = Append(messages, Head(timers))
    /\ timers' = Tail(timers)
    /\ UNCHANGED <<batched, app, handler, drawn, charts, runs, hover, isOpen, inputValue, sample,
                   quartile>>

\* the page with its visitor, on the files of UIDatasets
CsvThenUI ==
    csv = "pending" /\ batched /\ \E loadedData \in UIDatasets : Then(loadedData)

CsvThenSetDataUI ==
    csv = "pending" /\ ~batched /\ \E loadedData \in UIDatasets : ThenSetData(loadedData)

NextUI ==
    \/ LoadEffect
    \/ CsvThenUI
    \/ CsvThenSetDataUI
    \/ ThenSetKpi
    \/ ThenSetLoading
    \/ CsvCatch
    \/ CatchSetError
    \/ CatchSetLoading
    \/ IncomeDistributionChart
    \/ EducationChart
    \/ SexChart
    \/ MaritalStatusChart
    \/ AgeChart
    \/ HoursChart
    \/ CapitalGainsChart
    \/ OccupationChart
    \/ \E c \in HoverCharts, i \in 1..MaxUIRecords : MouseOver(c, i)
    \/ MouseMove
    \/ MouseOut
    \/ OpenChat
    \/ CloseChat
    \/ \E value \in ChatTexts : OnChange(value)
    \/ handleSendMessage
    \/ BotReply

SpecUI == Init /\ [][NextUI]_vars

\* ------------------------------------------------------ one question asked
\* the request is out, the chat is open and the visitor has typed a question
InitAsk ==
    /\ csv = "pending"
    /\ source = Null
    /\ data = Null
    /\ loading = TRUE
    /\ error = Null
    /\ kpi = Null
    /\ batched \in BOOLEAN
    /\ handler = "none"
    /\ drawn = 0
    /\ incomeData = Null
    /\ educationRates = Null
    /\ sexRates = Null
    /\ maritalRates = Null
    /\ ageSumstat = Null
    /\ hoursSumstat = Null
    /\ gainsSumstat = Null
    /\ occupationRates = Null
    /\ runs = [c \in ChartNames \cup {"kpi"} |-> 0]
    /\ pointer = Null
    /\ tooltip = [opacity |-> 0, html |-> Null]
    /\ isOpen = TRUE
    /\ messages = <<[sender |-> "bot", text |-> Greeting]>>
    /\ inputValue \in ChatInputs
    /\ timers = <<>>
    /\ sample = <<>>
    /\ quartile = Null

NextAsk ==
    \/ handleSendMessage
    \/ BotReply

SpecAsk == InitAsk /\ [][NextAsk]_vars

\* ------------------------------------------------------- the chatbot alone
\* the visitor and the chatbot while the dataset is on its way
NextChat ==
    \/ LoadEffect
    \/ OpenChat
    \/ CloseChat
    \/ \E value \in ChatTexts : OnChange(value)
    \/ handleSendMessage
    \/ BotReply

\* a timer that was set fires once its delay has passed
SpecChat == Init /\ [][NextChat]_vars /\ WF_vars(BotReply)


\* --------------------------------------------- the quantile routine alone
\* the column of one group, before the box-plot reducer sorts it
InitQuantile ==
    /\ FirstRender
    /\ sample \in Samples
    /\ quartile = Null

\* d3.quantile(d.map(g => g.age).sort(d3.ascending), p)
QuantileOfSample(p) ==
    /\ quartile' = [p |-> p, value |-> Quantile(SortAscending(sample), p)]
    /\ UNCHANGED <<batched, app, handler, drawn, charts, runs, hover, chat, sample>>

NextQuantile == \E p \in Quartiles : QuantileOfSample(p)

SpecQuantile == InitQuantile /\ [][NextQuantile]_vars

\* ================================================================== claims
\* the number of records of data whose column f holds k
CountKey(recs, f, k) == Cardinality({j \in 1..Len(recs) : recs[j][f] = k})

\* the number of those records whose income is '>50K'
CountHigh(recs, f, k) ==
    Cardinality({j \in 1..Len(recs) : recs[j][f] = k /\ recs[j].income = HighIncome})

RECURSIVE SumField(_, _)
SumField(a, f) == IF a = <<>> THEN 0 ELSE SumField(Front(a), f) + Last(a)[f]

\* the entries of a carry pairwise different keys in the field kf
DistinctKeys(a, kf) == \A i, j \in 1..Len(a) : i # j => a[i][kf] # a[j][kf]

\* the keys of a are exactly the values of the column f in data
CoversKeys(a, kf, recs, f) ==
    {a[i][kf] : i \in 1..Len(a)} = {recs[j][f] : j \in 1..Len(recs)}

\* C1: the counts of the income rollup sum to the number of records (0 for
\* the empty record set), and there is exactly one entry, with count >= 1,
\* per distinct income observed.
C1_CountsSumToRecords ==
    incomeData # Null =>
        LET a == incomeData.items
            d == data.items
        IN  /\ SumField(a, "value") = Len(d)
            /\ DistinctKeys(a, "key")
            /\ CoversKeys(a, "key", d, "income")
            /\ \A i \in 1..Len(a) : a[i].value >= 1 /\ a[i].value = CountKey(d, "income", a[i].key)

C1_Witness ==
    /\ incomeData # Null
    /\ Len(incomeData.items) >= 2
    /\ \E i \in 1..Len(incomeData.items) : incomeData.items[i].value >= 2

\* the group sizes behind a rate array: every record whose key is defined
\* falls in exactly one emitted group
TotalsCoverRecords(a, kf, recs, f) ==
    /\ DistinctKeys(a, kf)
    /\ CoversKeys(a, kf, recs, f)
    /\ SumField([i \in 1..Len(a) |-> [total |-> CountKey(recs, f, a[i][kf])]], "total")
           = Cardinality({j \in 1..Len(recs) : recs[j][f] # Undefined})

\* C2: for the education, sex and marital-status charts the group totals sum
\* to the number of records whose key is defined: every record is counted in
\* exactly one group.
C2_TotalsSumToRecords ==
    /\ educationRates # Null =>
           /\ TotalsCoverRecords(educationRates.items, "education", data.items, "education")
           /\ SumField(educationRates.items, "total") = Len(data.items)
           /\ \A i \in 1..Len(educationRates.items) :
                  educationRates.items[i].total
                      = CountKey(data.items, "education", educationRates.items[i].education)
    /\ sexRates # Null =>
           /\ TotalsCoverRecords(sexRates.items, "sex", data.items, "sex")
           /\ \A i \in 1..Len(sexRates.items) :
                  sexRates.items[i].rate
                      = Div(Num(CountHigh(data.items, "sex", sexRates.items[i].sex)),
                            Num(CountKey(data.items, "sex", sexRates.items[i].sex)))
    /\ maritalRates # Null =>
           /\ TotalsCoverRecords(maritalRates.items, "status", data.items, "marital")
           /\ \A i \in 1..Len(maritalRates.items) :
                  maritalRates.items[i].rate
                      = Div(Num(CountHigh(data.items, "marital", maritalRates.items[i].status)),
                            Num(CountKey(data.items, "marital", maritalRates.items[i].status)))

C2_Witness ==
    /\ maritalRates # Null
    /\ Len(educationRates.items) = 2
    /\ Len(data.items) = 3
    /\ data.items[1].education = data.items[3].education
    /\ data.items[1].education # data.items[2].education

\* every entry of the rate array a is the rate matched/total of its group in
\* data, with total >= 1 and 0 <= matched <= total
RatesWellFormed(a, kf, recs, f) ==
    \A i \in 1..Len(a) :
        LET total   == CountKey(recs, f, a[i][kf])
            matched == CountHigh(recs, f, a[i][kf])
        IN  /\ total >= 1
            /\ 0 <= matched /\ matched <= total
            /\ IsNum(a[i].rate)
            /\ a[i].rate.num * total = matched * a[i].rate.den
            /\ Le(Num(0), a[i].rate) /\ Le(a[i].rate, Num(1))

\* C3: every emitted rate aggregate has total >= 1, 0 <= matched <= total and
\* rate = matched/total in [0,1]; no rate comes from a division by zero.
C3_RatesWellFormed ==
    /\ educationRates # Null =>
           /\ RatesWellFormed(educationRates.items, "education", data.items, "education")
           /\ \A i \in 1..Len(educationRates.items) : educationRates.items[i].total >= 1
    /\ sexRates # Null => RatesWellFormed(sexRates.items, "sex", data.items, "sex")
    /\ maritalRates # Null => RatesWellFormed(maritalRates.items, "status", data.items, "marital")
    /\ occupationRates # Null =>
           RatesWellFormed(occupationRates.items, "occupation", data.items, "occupation")

C3_Witness ==
    /\ occupationRates # Null
    /\ \E i \in 1..Len(occupationRates.items) :
           /\ Lt(Num(0), occupationRates.items[i].rate)
           /\ Lt(occupationRates.items[i].rate, Num(1))
    /\ \E i \in 1..Len(sexRates.items) : sexRates.items[i].rate = Num(0)

\* the numbers found in the column f of the records of recs whose income is k
ValidValues(recs, f, k) ==
    {recs[j][f] : j \in {x \in 1..Len(recs) : recs[x].income = k /\ IsNum(recs[x][f])}}

\* the entries of the box-plot array a summarise the column f of recs
SummariesOrdered(a, recs, f) ==
    \A i \in 1..Len(a) :
        LET vals == ValidValues(recs, f, a[i].key)
            s    == a[i].value
        IN  vals # {} =>
                /\ Le(s.min, s.q1) /\ Le(s.q1, s.median)
                /\ Le(s.median, s.q3) /\ Le(s.q3, s.max)
                /\ s.min \in vals /\ \A w \in vals : Le(s.min, w)
                /\ s.max \in vals /\ \A w \in vals : Le(w, s.max)

\* the records the capital-gains chart keeps: capital gain a number above 0
PositiveGains(recs) ==
    SelectSeq(recs, LAMBDA r : IsNum(r.capitalGain) /\ r.capitalGain.num > 0)

\* C4: for every income group with a non-empty numeric sample the summary of
\* the age, hours-per-week and capital-gain box plots satisfies
\* min <= q1 <= median <= q3 <= max, min and max being the smallest and the
\* largest value of the sample.
C4_FiveNumbersOrdered ==
    /\ ageSumstat # Null => SummariesOrdered(ageSumstat.items, data.items, "age")
    /\ hoursSumstat # Null => SummariesOrdered(hoursSumstat.items, data.items, "hours")
    /\ gainsSumstat # Null =>
           SummariesOrdered(gainsSumstat.items, PositiveGains(data.items), "capitalGain")

C4_Witness ==
    /\ gainsSumstat # Null
    /\ \E i \in 1..Len(ageSumstat.items) :
           LET s == ageSumstat.items[i].value
           IN  Lt(s.min, s.q1) /\ Lt(s.q1, s.median) /\ Lt(s.median, s.q3) /\ Lt(s.q3, s.max)
    /\ data.items[1].age = Num(40)

\* all entries of v are numbers, in ascending order
IsAscending(v) ==
    /\ \A i \in 1..Len(v) : IsNum(v[i])
    /\ \A i, j \in 1..Len(v) : i < j => Le(v[i], v[j])

\* Math.ceil of a non-negative number
Ceil(a) == IF a.num % a.den = 0 THEN a.num \div a.den ELSE (a.num \div a.den) + 1

\* v[floor(h)] + (h - floor(h)) * (v[ceil(h)] - v[floor(h)]), h = p * (n - 1), zero-based
Interpolated(v, p) ==
    LET h == Mul(p, Num(Len(v) - 1))
    IN  Add(v[Floor(h) + 1],
            Mul(Sub(h, Num(Floor(h))), Sub(v[Ceil(h) + 1], v[Floor(h) + 1])))

Example2 == <<Num(10), Num(20), Num(30), Num(40)>>

\* C5: on an ascending sample v of n >= 1 numbers and p in {1/4, 1/2, 3/4}
\* the quantile is v[floor(h)] + (h - floor(h)) * (v[ceil(h)] - v[floor(h)])
\* with h = p * (n - 1); [10,20,30,40] gives 17.5, 25 and 32.5, and a sample
\* of one element gives that element.
C5_QuantileInterpolates ==
    (quartile # Null /\ Len(sample) >= 1 /\ IsAscending(sample)) =>
        /\ quartile.value = Interpolated(sample, quartile.p)
        /\ Len(sample) = 1 => quartile.value = sample[1]
        /\ sample = Example2 =>
               quartile.value = CASE quartile.p = Rat(1, 4) -> Rat(35, 2)
                                  [] quartile.p = Rat(1, 2) -> Num(25)
                                  [] quartile.p = Rat(3, 4) -> Rat(65, 2)

C5_Witness ==
    /\ sample = Example2
    /\ quartile # Null
    /\ quartile.p = Rat(1, 4)
    /\ quartile.value = Rat(35, 2)

\* C6: for an empty record set the KPI is total 0, high-income rate 0 and
\* median age null, neither NaN nor undefined.
C6_EmptyKpi ==
    (kpi # Null /\ Len(data.items) = 0) =>
        /\ kpi.total = 0
        /\ kpi.highIncomePercent = Num(0)
        /\ kpi.medianAge = Null

\* the number of records of recs whose income is '>50K'
HighRecords(recs) == Cardinality({j \in 1..Len(recs) : recs[j].income = HighIncome})

\* C7 as stated: for a non-empty record set the KPI holds the number of
\* records and the rate (records with income '>50K') / total, a value in [0,1].
C7_RateInUnitInterval ==
    (kpi # Null /\ Len(data.items) > 0) =>
        /\ kpi.total = Len(data.items)
        /\ kpi.highIncomePercent = Rat(HighRecords(data.items), Len(data.items))
        /\ Le(Num(0), kpi.highIncomePercent) /\ Le(kpi.highIncomePercent, Num(1))

\* C7 as amended: for a non-empty record set the KPI holds the number of
\* records and the percentage 100 * (records with income '>50K') / total, a
\* value in [0,100].
C7_PercentOfRecords ==
    (kpi # Null /\ Len(data.items) > 0) =>
        /\ kpi.total = Len(data.items)
        /\ kpi.highIncomePercent = Rat(100 * HighRecords(data.items), Len(data.items))
        /\ Le(Num(0), kpi.highIncomePercent) /\ Le(kpi.highIncomePercent, Num(100))

C7_Witness ==
    /\ kpi # Null
    /\ kpi.total = 3
    /\ kpi.highIncomePercent = Rat(100, 3)
    /\ \E j \in 1..3 : data.items[j].income = NA

\* the valid numbers of a column, ascending
ValidSorted(column) == Ascending(SelectSeq(column, IsNum))

\* the five-number summary of an ascending non-empty sample
SummaryOf(v) ==
    [q1     |-> Interpolated(v, Rat(1, 4)),
     median |-> Interpolated(v, Rat(1, 2)),
     q3     |-> Interpolated(v, Rat(3, 4)),
     min    |-> v[1],
     max    |-> v[Len(v)]]

\* every entry of the box-plot array a is the summary of the valid numbers of its group
SummariesOfValid(a, recs, f) ==
    \A i \in 1..Len(a) :
        LET group == SelectSeq(recs, LAMBDA r : r.income = a[i].key)
            v     == ValidSorted([j \in 1..Len(group) |-> group[j][f]])
        IN  v # <<>> => a[i].value = SummaryOf(v)

\* C8: not-a-number values are left out of every numeric aggregate: the
\* median age and each five-number summary come from the valid numbers only,
\* and the median age is null when no record has a valid age.
C8_InvalidExcluded ==
    /\ kpi # Null =>
           LET ages == ValidSorted([j \in 1..Len(data.items) |-> data.items[j].age])
           IN  kpi.medianAge = IF ages = <<>> THEN Null ELSE Interpolated(ages, Rat(1, 2))
    /\ ageSumstat # Null => SummariesOfValid(ageSumstat.items, data.items, "age")
    /\ hoursSumstat # Null => SummariesOfValid(hoursSumstat.items, data.items, "hours")
    /\ gainsSumstat # Null =>
           SummariesOfValid(gainsSumstat.items, PositiveGains(data.items), "capitalGain")

NumericFields == {"age", "hours", "educationNum", "capitalGain", "capitalLoss"}

CategoricalFields == {"income", "education", "occupation", "sex", "marital"}

\* the text v writes a number: digits, possibly with white space around them
IsNumericText(v) ==
    /\ IsStr(v)
    /\ \E i \in 1..Len(v.chars) : v.chars[i] \in Digits
    /\ \A i \in 1..Len(v.chars) : v.chars[i] \in Digits \cup {Space}

\* C9: a numeric field whose source text is not a number, an empty or
\* white-space-only field included, is cleaned to NaN and never to 0.
C9_NonNumericBecomesNaN ==
    data # Null =>
        \A j \in 1..Len(data.items) : \A f \in NumericFields :
            ~IsNumericText(source.items[j][f]) => data.items[j][f] = NaN

\* the field v is unset, empty or holds white space only
IsBlank(v) == v = Undefined \/ (IsStr(v) /\ \A i \in 1..Len(v.chars) : v.chars[i] = Space)

\* C10: after cleaning every categorical field is a non-empty string without
\* white space at either end, or the sentinel 'N/A'; an unset, empty or
\* white-space-only field becomes the sentinel, never the empty string.
C10_CategoricalClean ==
    data # Null =>
        \A j \in 1..Len(data.items) : \A f \in CategoricalFields :
            LET v == data.items[j][f]
            IN  /\ IsStr(v)
                /\ v.chars # <<>>
                /\ v.chars[1] # Space /\ v.chars[Len(v.chars)] # Space
                /\ IsBlank(source.items[j][f]) => v = NA

\* the first UTF-16 code unit of a token; the tokens in use differ in it
CodeOf(t) ==
    CASE t = Space -> 32
      [] t \in Digits -> 48 + DigitVal(t)
      [] t = "<=50K" -> 60
      [] t = ">50K" -> 62
      [] t = "?" -> 63
      [] t = "A" -> 65
      [] t = "B" -> 66
      [] t = "N/A" -> 78
      [] OTHER -> 120

\* a < b on strings: the order of the code units
RECURSIVE LexLt(_, _)
LexLt(a, b) ==
    IF b = <<>> THEN FALSE
    ELSE IF a = <<>> THEN TRUE
    ELSE IF CodeOf(Head(a)) # CodeOf(Head(b)) THEN CodeOf(Head(a)) < CodeOf(Head(b))
    ELSE LexLt(Tail(a), Tail(b))

\* entries of a with equal sort keys sf stand in ascending order of their keys kf
TiesLexical(a, kf, sf) ==
    \A i, j \in 1..Len(a) :
        (i < j /\ NumEq(a[i][sf], a[j][sf])) => LexLt(a[i][kf].chars, a[j][kf].chars)

\* C11: in the sorted rate aggregations of sex, marital status, occupation
\* and education, groups with equal sort keys appear in ascending lexical
\* order of their group key, whatever the order of the records.
C11_TiesLexical ==
    /\ sexRates # Null => TiesLexical(sexRates.items, "sex", "rate")
    /\ maritalRates # Null => TiesLexical(maritalRates.items, "status", "rate")
    /\ occupationRates # Null => TiesLexical(occupationRates.items, "occupation", "rate")
    /\ educationRates # Null => TiesLexical(educationRates.items, "education", "educationNum")

\* the rates of a never increase (desc) or never decrease (~desc) from one entry to the next
RatesOrdered(a, desc) ==
    \A i \in 1..(Len(a) - 1) :
        IF desc THEN Le(a[i + 1].rate, a[i].rate) ELSE Le(a[i].rate, a[i + 1].rate)

\* C12 as stated: the rate aggregates of occupation, marital status and sex
\* are each emitted in descending order of rate.
C12_AllDescending ==
    /\ occupationRates # Null => RatesOrdered(occupationRates.items, TRUE)
    /\ maritalRates # Null => RatesOrdered(maritalRates.items, TRUE)
    /\ sexRates # Null => RatesOrdered(sexRates.items, TRUE)

\* C12 as amended: the rate aggregates of occupation and of sex are emitted
\* in descending order of rate, those of marital status in ascending order.
C12_OrderedByRate ==
    /\ occupationRates # Null => RatesOrdered(occupationRates.items, TRUE)
    /\ sexRates # Null => RatesOrdered(sexRates.items, TRUE)
    /\ maritalRates # Null => RatesOrdered(maritalRates.items, FALSE)

C12_Witness ==
    /\ occupationRates # Null
    /\ Len(sexRates.items) = 2
    /\ Lt(sexRates.items[2].rate, sexRates.items[1].rate)
    /\ Lt(maritalRates.items[1].rate, maritalRates.items[2].rate)
    /\ data.items[1].income = LowIncome
    /\ data.items[1].sex = sexRates.items[2].sex

\* the place of the first record of recs whose column f holds k
FirstSeen(recs, f, k) == CHOOSE j \in 1..Len(recs) :
    recs[j][f] = k /\ \A x \in 1..(j - 1) : recs[x][f] # k

Example1 == <<HighIncome, HighIncome, LowIncome>>

ClampedPosition(scale, v) ==
    LET d0 == scale.domain[1]
        d1 == scale.domain[2]
        r0 == scale.range[1]
        r1 == scale.range[2]
        at == Add(r0, Mul(Div(Sub(v, d0), Sub(d1, d0)), Sub(r1, r0)))
    IN  IF Lt(at, r0) THEN r0 ELSE IF Lt(r1, at) THEN r1 ELSE at

\* every summary value of plot that is a number is drawn at its clamped position
SummariesClamped(plot, sumstat) ==
    \A i \in 1..Len(sumstat) :
        LET v == sumstat[i].value
            b == plot.boxes[i]
        IN  /\ IsNum(v.min) => b.vertLine.x1 = ClampedPosition(plot.linear, v.min)
            /\ IsNum(v.max) => b.vertLine.x2 = ClampedPosition(plot.linear, v.max)
            /\ IsNum(v.q1) => b.box.x = ClampedPosition(plot.linear, v.q1)
            /\ IsNum(v.q3) => Add(b.box.x, b.box.width) = ClampedPosition(plot.linear, v.q3)
            /\ IsNum(v.median) => b.medianLine.x1 = ClampedPosition(plot.linear, v.median)

\* C14: the linear scale maps v to r0 + (v - d0) / (d1 - d0) * (r1 - r0) and
\* clamps the result to [r0, r1]: in the age chart (domain [15, 95]) and the
\* capital-gains chart (domain [0, 100000]) the positions of min, q1, median,
\* q3 and max are the clamped positions, so they lie inside [0, width].
\* (Stated for the files whose age and capital.gain columns hold numbers
\* only, where the cleaning of other texts plays no part.)
C14_LinearScaleClamps ==
    (data # Null /\ \A j \in 1..Len(source.items) :
                        /\ IsNumericText(source.items[j].age)
                        /\ IsNumericText(source.items[j].capitalGain)) =>
        /\ ageSumstat # Null => SummariesClamped(Svg("age"), ageSumstat.items)
        /\ gainsSumstat # Null => SummariesClamped(Svg("gains"), gainsSumstat.items)

\* ---------------------------------------------------------------------- C15
Degenerate(scale) == NumEq(scale.domain[1], scale.domain[2])

\* C15: when the domain of the rate scale is degenerate (every group of the
\* sex, marital-status or occupation chart has rate 0, the domain is [0, 0]),
\* every value is drawn at the start r0 of the range: the sex bars at y =
\* height with height 0, the marital-status and occupation bars with width 0.
C15_DegenerateMapsToStart ==
    /\ (sexRates # Null /\ Degenerate(Svg("sex").linear)) =>
           \A i \in 1..Len(Svg("sex").rects) :
               Svg("sex").rects[i].y = Svg("sex").linear.range[1]
    /\ (maritalRates # Null /\ Degenerate(Svg("marital").linear)) =>
           \A i \in 1..Len(Svg("marital").rects) :
               /\ Svg("marital").rects[i].x = Svg("marital").linear.range[1]
               /\ Svg("marital").rects[i].width = Svg("marital").linear.range[1]
    /\ (occupationRates # Null /\ Degenerate(Svg("occupation").linear)) =>
           \A i \in 1..Len(Svg("occupation").rects) :
               Svg("occupation").rects[i].width = Svg("occupation").linear.range[1]

\* ---------------------------------------------------------------------- C16
\* the band scale a chart has drawn with, and the slots of its keys
BandCharts == {"education", "sex", "marital", "age", "hours", "gains", "occupation"}

\* the effect of chart c has just run (what it drew stays as it is afterwards)
JustDrawn(c) ==
    drawn = CASE c = "income" -> 1 [] c = "education" -> 2 [] c = "sex" -> 3
              [] c = "marital" -> 4 [] c = "age" -> 5 [] c = "hours" -> 6
              [] c = "gains" -> 7 [] c = "occupation" -> 8

Extent(scale) == Abs(scale.range[2].num - scale.range[1].num)

\* the slots of the keys lie inside [0, L] and follow the key order from the
\* first end of the range to the second, one after the other
SlotsInOrder(scale) ==
    LET n       == Len(scale.domain)
        slot(i) == [from |-> scale.values[i], to |-> Add(scale.values[i], scale.bandwidth)]
        up      == Lt(scale.range[1], scale.range[2])
    IN  /\ \A i \in 1..n : /\ Le(Num(0), slot(i).from)
                           /\ Lt(slot(i).from, slot(i).to)
                           /\ Le(slot(i).to, Num(Extent(scale)))
        /\ \A i, j \in 1..n :
               i < j => IF up THEN Le(slot(i).to, slot(j).from) ELSE Le(slot(j).to, slot(i).from)

\* C16 as claimed: a band scale over N >= 1 keys, extent [0, L] and padding p
\* gives every key a slot of width L / N * (1 - p); the slots are pairwise
\* disjoint, lie inside [0, L] and follow the caller-supplied key order.
C16_SlotWidthOverKeys ==
    \A c \in BandCharts :
        JustDrawn(c) =>
            LET scale == Svg(c).band
            IN  Len(scale.domain) >= 1 =>
                    /\ scale.bandwidth =
                           Mul(Div(Num(Extent(scale)), Num(Len(scale.domain))),
                               Sub(Num(1), scale.padding))
                    /\ SlotsInOrder(scale)

\* C16 as amended: the padding also lies before the first and after the last
\* slot, so every slot has the width L / (N + p) * (1 - p); the slots are
\* pairwise disjoint, lie inside [0, L] and follow the caller-supplied key
\* order from the first end of the range to the second.
C16_SlotWidthPadded ==
    \A c \in BandCharts :
        JustDrawn(c) =>
            LET scale == Svg(c).band
            IN  Len(scale.domain) >= 1 =>
                    /\ scale.bandwidth =
                           Mul(Div(Num(Extent(scale)),
                                   Add(Num(Len(scale.domain)), scale.padding)),
                               Sub(Num(1), scale.padding))
                    /\ SlotsInOrder(scale)

\* the education chart and the marital-status chart (reversed range) have
\* drawn two bars
C16_Witness ==
    /\ educationRates # Null /\ Len(Svg("education").band.domain) = 2
    /\ maritalRates # Null /\ Len(Svg("marital").band.domain) = 2
    /\ Svg("education").rects[1].x = Rat(710, 11)
    /\ Lt(Svg("marital").rects[2].y, Svg("marital").rects[1].y)

\* ---------------------------------------------------------------------- C17
NothingDrawn ==
    /\ drawn = 0
    /\ incomeData = Null /\ educationRates = Null /\ sexRates = Null /\ maritalRates = Null
    /\ ageSumstat = Null /\ hoursSumstat = Null /\ gainsSumstat = Null
    /\ occupationRates = Null

\* C17: when the load fails, the one error message is set and stays as it
\* is, loading has ended once the callback is over, and in every state from
\* then on no chart and no KPI card is rendered (no records, no KPI, no
\* chart effect has run); no state shows the error message with a chart.
C17_FailureShowsOnlyError ==
    /\ [](csv = "rejected" => error = ErrorMessage)
    /\ [](error # Null =>
            /\ error = ErrorMessage
            /\ csv = "rejected"
            /\ handler = "none" => ~loading
            /\ data = Null /\ kpi = Null /\ ~Mounted
            /\ NothingDrawn)
    /\ [][error # Null => error' = error]_vars

\* the load has failed and its callback is over
C17_Witness == csv = "rejected" /\ handler = "none" /\ error = ErrorMessage /\ ~loading

\* ---------------------------------------------------------------------- C18
\* the state of the dataset lifecycle, read off the state of App
Phase ==
    IF error # Null THEN "Failed"
    ELSE IF data # Null THEN "Ready"
    ELSE IF csv = "unloaded" THEN "Unloaded"
    ELSE "Loading"

\* C18: the lifecycle only moves Unloaded -> Loading -> Ready or Failed;
\* Ready (records stored) and Failed (error set) exclude each other and are
\* final; the KPI and the chart aggregations run only in steps that end in
\* Ready, and in no other state has any aggregation run, so none is ever
\* attempted when the load fails.
C18_Lifecycle ==
    /\ [](~(data # Null /\ error # Null))
    /\ [](Phase # "Ready" => \A c \in DOMAIN runs : runs[c] = 0)
    /\ [][Phase' # Phase =>
              <<Phase, Phase'>> \in {<<"Unloaded", "Loading">>, <<"Loading", "Ready">>,
                                     <<"Loading", "Failed">>}]_vars
    /\ [][runs' # runs => Phase' = "Ready"]_vars

\* every aggregation has run, in Ready
C18_Witness == Phase = "Ready" /\ \A c \in DOMAIN runs : runs[c] = 1

\* ---------------------------------------------------------------------- C19
\* C19: for the one record set the page ever stores, the KPI and every
\* chart aggregation run exactly once; no mouseover, mousemove or mouseout
\* on a chart shape and no change of the chatbot's state runs one again.
C19_OneRunPerRecordSet ==
    /\ [](\A c \in DOMAIN runs : runs[c] <= 1)
    /\ []((Idle /\ data # Null) => \A c \in DOMAIN runs : runs[c] = 1)
    /\ [][(hover' # hover \/ chat' # chat) => UNCHANGED <<app, drawn, charts, runs>>]_vars

\* the pointer is on a shape whose tooltip is filled, and the bot has replied
C19_Witness ==
    /\ pointer # Null /\ tooltip.opacity = 1 /\ tooltip.html # Null
    /\ Len(messages) = 3
    /\ \A c \in DOMAIN runs : runs[c] = 1

EmptyRecords == data # Null /\ Len(data.items) = 0

\* C22: on the empty record set every count and rate aggregation (and every
\* box-plot rollup) is the empty collection, and every chart effect builds
\* its scales and draws without an exception: the band scales of the bar
\* charts have no category and a defined step and bandwidth, the rate scales
\* of the sex, marital-status and occupation charts have the domain [0, NaN]
\* (d3.max over no groups is undefined) and position 0 at NaN, the box plots
\* keep their two fixed bands, and no shape is drawn.
C22_EmptyDrawsNothing ==
    EmptyRecords =>
        /\ kpi # Null => Mounted
        /\ \A k \in 1..Len(charts) : charts[k] # Null => charts[k].items = <<>>
        /\ JustDrawn("income") => Svg("income") = <<>>
        /\ \A c \in {"education", "sex", "marital", "occupation"} :
               JustDrawn(c) =>
                   LET s == Svg(c)
                   IN  /\ s.rects = <<>>
                       /\ s.band.domain = <<>> /\ s.band.values = <<>>
                       /\ IsNum(s.band.step) /\ IsNum(s.band.bandwidth)
                       /\ IF c = "education"
                          THEN s.linear.domain = <<Num(0), Num(1)>>
                          ELSE /\ s.linear.domain = <<Num(0), NaN>>
                               /\ Linear(s.linear, Num(0)) = NaN
        /\ \A c \in {"age", "hours", "gains"} :
               JustDrawn(c) =>
                   LET s == Svg(c)
                   IN  /\ s.boxes = <<>>
                       /\ s.band.domain = <<LowIncome, HighIncome>>
                       /\ IsNum(s.band.bandwidth)

\* every chart effect has run on the empty record set
C22_Witness ==
    /\ EmptyRecords /\ drawn = 8 /\ ~loading
    /\ incomeData.items = <<>> /\ occupationRates.items = <<>>
    /\ Svg("occupation").band.step = Num(340)

\* ---------------------------------------------------------------------- C23
\* C23: the education rate aggregates are emitted in ascending order of the
\* numeric level of the education (the education.num they carry), whatever
\* the records: no aggregate stands before one of a smaller level.
C23_EducationAscending ==
    educationRates # Null =>
        \A i, j \in 1..Len(educationRates.items) :
            (/\ i < j
             /\ IsNum(educationRates.items[i].educationNum)
             /\ IsNum(educationRates.items[j].educationNum)) =>
                Le(educationRates.items[i].educationNum, educationRates.items[j].educationNum)

\* ---------------------------------------------------------------------- C24
\* the occupation of the record is known: a text other than '?' and 'N/A'
KnownOccupation(r) == Truthy(r.occupation) /\ r.occupation \notin {Unknown, NA}

\* C24: the occupation chart leaves out the records of unknown occupation
\* before it groups: no group has the key '?' or 'N/A', the sizes of the
\* groups sum to the number of records whose occupation is known, and the
\* records left out here are still counted by the income and education
\* charts.
C24_UnknownOccupationExcluded ==
    occupationRates # Null =>
        LET a == occupationRates.items
        IN  /\ \A i \in 1..Len(a) : a[i].occupation \notin {Unknown, NA}
            /\ SumField([i \in 1..Len(a) |->
                            [total |-> CountKey(data.items, "occupation", a[i].occupation)]],
                        "total")
                   = Len(SelectSeq(data.items, KnownOccupation))
            /\ SumField(incomeData.items, "value") = Len(data.items)
            /\ SumField(educationRates.items, "total") = Len(data.items)

\* ---------------------------------------------------------------------- C25
\* every entry of the box-plot array a comes from a group with at least one
\* number in the column f, so its three quantiles are numbers
SamplesNonEmpty(a, recs, f) ==
    \A i \in 1..Len(a) :
        /\ ValidValues(recs, f, a[i].key) # {}
        /\ IsNum(a[i].value.q1) /\ IsNum(a[i].value.median) /\ IsNum(a[i].value.q3)

\* C25: the quantile routine is never called on an empty sample: every group
\* for which the age, hours-per-week or capital-gains box plot computes q1,
\* median and q3 holds at least one valid number, also a group whose values
\* are all not-a-number and the groups left by the capital-gain filter.
C25_QuantileSampleNonEmpty ==
    /\ ageSumstat # Null => SamplesNonEmpty(ageSumstat.items, data.items, "age")
    /\ hoursSumstat # Null => SamplesNonEmpty(hoursSumstat.items, data.items, "hours")
    /\ gainsSumstat # Null =>
           SamplesNonEmpty(gainsSumstat.items, data.items, "capitalGain")

\* ---------------------------------------------------------------------- C26
\* the rules in their order: the keywords of a rule and its response
Rules ==
    <<[keywords |-> {<<"help">>}, response |-> HelpResponse],
      [keywords |-> {<<"age">>}, response |-> AgeResponse],
      [keywords |-> {<<"education">>}, response |-> EducationResponse],
      [keywords |-> {<<"sex">>}, response |-> SexResponse],
      [keywords |-> {<<"marital", Space, "status">>}, response |-> MaritalResponse],
      [keywords |-> {<<"capital", Space, "gain">>}, response |-> GainsResponse],
      [keywords |-> {<<"occupation">>}, response |-> OccupationResponse],
      [keywords |-> {<<"takeaway">>, <<"insight">>}, response |-> InsightResponse]>>

\* the lower-cased, trimmed text contains a keyword of rule r
Matches(text, r) ==
    \E k \in Rules[r].keywords : Includes(Trim(ToLowerCase(text)), k)

\* the question asked and the one response to it, pending or delivered
Asked == Len(messages) >= 2

Question == messages[2].text

Answer == IF timers # <<>> THEN timers[1].text ELSE messages[3].text

\* C26: the response to a question is the response of the first rule, in
\* the fixed order, whose keyword the lower-cased and trimmed question
\* contains, and the fallback response exactly when no rule matches; a
\* question with 'help' and 'age' gets the help response; every question
\* gets exactly one response.
C26_FirstMatchWins ==
    Asked =>
        /\ Len(messages) + Len(timers) = 3
        /\ \A r \in 1..Len(Rules) :
               (Matches(Question, r) /\ \A q \in 1..(r - 1) : ~Matches(Question, q)) =>
                   Answer = Rules[r].response
        /\ Answer = FallbackResponse <=> \A r \in 1..Len(Rules) : ~Matches(Question, r)
        /\ (Includes(Question, <<"help">>) /\ Includes(Question, <<"age">>)) =>
               Answer = HelpResponse
        /\ Question = Str(<<"HELP">>) => Answer = HelpResponse
        /\ Question = Str(<<Space, "x">>) => Answer = FallbackResponse

\* 'age help' was asked and the help response delivered
C26_Witness ==
    /\ Asked /\ Question = Str(<<"age", Space, "help">>)
    /\ Len(messages) = 3 /\ messages[3] = [sender |-> "bot", text |-> HelpResponse]

\* ---------------------------------------------------------------------- C27
\* the texts of the messages of one sender, in the order of the list
TextsOf(msgs, sender) ==
    LET own == SelectSeq(msgs, LAMBDA m : m.sender = sender)
    IN  [i \in 1..Len(own) |-> own[i].text]

\* what the visitor has submitted, and the replies delivered (after the
\* greeting) and pending
Submitted == TextsOf(messages, "user")

Delivered == Tail(TextsOf(messages, "bot"))

Pending == [i \in 1..Len(timers) |-> timers[i].text]

\* C27: a submit of a non-blank input appends the user message with the
\* input as typed, at once, and sets one reply computed from that input; the
\* replies, delivered and pending, are those of the submits in the order of
\* the submits, and every reply is delivered eventually; no step appends a
\* user message while the input is blank; the list only grows at its end,
\* by one message per step.
C27_SubmitAndReply ==
    /\ [](/\ messages[1] = [sender |-> "bot", text |-> Greeting]
          /\ \A i \in 1..Len(Submitted) : Truthy(Trim(Submitted[i]))
          /\ Delivered \o Pending = [i \in 1..Len(Submitted) |-> getBotResponse(Submitted[i])]
          /\ \A i \in 1..Len(timers) : timers[i].sender = "bot")
    /\ [][messages' # messages =>
              /\ Len(messages') = Len(messages) + 1
              /\ SubSeq(messages', 1, Len(messages)) = messages
              /\ IF Last(messages').sender = "user"
                 THEN /\ Truthy(Trim(inputValue))
                      /\ Last(messages').text = inputValue
                      /\ timers' = Append(timers, [sender |-> "bot",
                                                   text   |-> getBotResponse(inputValue)])
                 ELSE /\ Last(messages') = Head(timers)
                      /\ timers' = Tail(timers)]_vars
    /\ [][timers' # timers => messages' # messages]_vars
    /\ \A k \in 1..MaxSubmits : (Len(Submitted) >= k) ~> (Len(Delivered) >= k)

\* ' Age ' was submitted before the reply to 'help' arrived, and both
\* replies were delivered in the order of the submits
C27_Witness ==
    /\ Len(messages) = 5 /\ timers = <<>>
    /\ messages[2] = [sender |-> "user", text |-> Str(<<"help">>)]
    /\ messages[3] = [sender |-> "user", text |-> Str(<<Space, "Age", Space>>)]
    /\ messages[4] = [sender |-> "bot", text |-> HelpResponse]
    /\ messages[5] = [sender |-> "bot", text |-> AgeResponse]

\* ---------------------------------------------------------------------- C28
\* every summary of the box plot c was computed for one of the two keys of
\* its band scale, and each of its shapes has its place on that scale
KeysOnBand(c, sumstat) ==
    /\ \A i \in 1..Len(sumstat) : sumstat[i].key \in {LowIncome, HighIncome}
    /\ JustDrawn(c) =>
           \A i \in 1..Len(sumstat) :
               LET b == Svg(c).boxes[i]
               IN  /\ IsNum(b.vertLine.y1) /\ IsNum(b.vertLine.y2)
                   /\ IsNum(b.box.y)
                   /\ IsNum(b.medianLine.y1) /\ IsNum(b.medianLine.y2)

\* C28: every group key of the age, hours-per-week and capital-gains box
\* plots is one of the two keys '<=50K' and '>50K' of the fixed band domain,
\* so every whisker, box and median line has a defined band position, also
\* for records whose income is missing or another label.
C28_BoxKeysInBandDomain ==
    /\ ageSumstat # Null => KeysOnBand("age", ageSumstat.items)
    /\ hoursSumstat # Null => KeysOnBand("hours", hoursSumstat.items)
    /\ gainsSumstat # Null => KeysOnBand("gains", gainsSumstat.items)

\* ---------------------------------------------------------------------- C29
\* the views the render of the current state shows
ViewsShown ==
    {v \in {"loading", "error", "charts"} :
        CASE v = "loading" -> loading
          [] v = "error" -> error # Null
          [] v = "charts" -> Mounted}

Settled == csv \in {"fulfilled", "rejected"}

\* C30: once the request has settled, on the success and on the failure
\* path, loading becomes false eventually, and once false it stays false;
\* loading does not end before the request has settled.
C30_LoadingEnds ==
    /\ Settled ~> ~loading
    /\ [][~loading => ~loading']_vars
    /\ [](~loading => Settled)

\* the callback that rendered after each setter has ended, loading with it
C30_Witness ==
    /\ csv = "fulfilled" /\ ~batched /\ handler = "none" /\ drawn = 8
    /\ ~loading /\ Len(data.items) = 3

====
